---- MODULE Spec2Model ----
(***************************************************************************)
(* The transactional operation executor of d9-manager:                     *)
(*   src/src/core/transaction-manager.ts  (TransactionManager)             *)
(*   src/src/core/state-manager.ts        (InstallationStateManager)       *)
(*   src/src/core/operations.ts           (the Operation contract)         *)
(*                                                                         *)
(* A step id is modelled by the position of the step in the ledger: ids    *)
(* are generated once per initialize() and never change afterwards.  An    *)
(* Operation is an interface, so the outcome of each of its four methods   *)
(* is a nondeterministic input of the action that awaits it; a rejected    *)
(* promise is the outcome "throw".  Every await of execute() is one        *)
(* action, so that the process can be interrupted between any two.         *)
(*                                                                         *)
(* In Spec the file operations of the ledger succeed (saveState writes,    *)
(* loadState reads what was written); what Operations do and where the     *)
(* process stops is unconstrained.  The error text of a failure result is  *)
(* an input drawn from the one-element set {OpError}.  result, caller,     *)
(* trace, startStatus and clearedAfterSuccess are history variables: the   *)
(* program does not read them.                                             *)
(*                                                                         *)
(* Three specifications share the variables:                               *)
(*   Spec           TransactionManager over a ledger whose saves succeed   *)
(*   LedgerSpec     the ledger files with saveState() and clearState()     *)
(*                  taken one file operation at a time, under process      *)
(*                  kills and failing writes                               *)
(*   CompositeSpec  CompositeOperation.execute() and rollback()            *)
(* Each leaves the variables of the other two as Init sets them.           *)
(***************************************************************************)
EXTENDS Naturals, Sequences, FiniteSets

VARIABLES
    state,          \* InstallationStateManager.state (NoState models null)
    primary,        \* the ledger file at statePath (NoState: no file)
    backup,         \* the file at STATE_BACKUP_PATH (NoState: no file)
    operations,     \* TransactionManager.operations: step ids with an Operation
    pc,             \* position of the running execute() call, "idle" if none
    pendingSteps,   \* local of execute(): the steps to run, by id
    cur,            \* local of execute(): index of the for-loop in pendingSteps
    executedOps,    \* local of execute(): operations completed in this call
    rollbackQueue,  \* local of execute(): what executedOps.reverse() still holds
    errorMessage,   \* local of execute(): message of the error caught
    result,         \* what the last API call returned or raised
    caller,         \* "execute" or "resume": the API call that trace belongs to
    trace,          \* Operation methods invoked by the current call, in order
    startStatus,    \* the step statuses when the current call started
    clearedAfterSuccess, \* clear() has been called after a success=true result
    torn,           \* the files whose content is incomplete (a torn write)
    ledgerPc,       \* position inside saveState()/clearState(), "idle" if none
    openStep,       \* the step started and not yet finished by this process, or 0
    inFlight,       \* the step of the ledger transition begun last, or 0
    durable,        \* the ledger as of the last transition that returned
    priorPrimary,   \* the primary file as the save in progress (or last) found it
    initReturned,   \* initializeState() has returned and no clearState() since
    children,       \* CompositeOperation.operations: the children, by id
    cpc,            \* position of the running CompositeOperation call
    cCaller,        \* "execute" or "rollback": the call that cTrace belongs to
    cIndex,         \* local of CompositeOperation.execute(): the for-loop index
    cExecuted,      \* local of CompositeOperation.execute(): executedOps
    cQueue,         \* the children the running rollback loop still has to visit
    cError,         \* local of CompositeOperation.execute(): the error caught
    cResult,        \* what the last CompositeOperation call returned or raised
    cTrace,         \* child methods invoked by the current composite call
    cOrder,         \* the children list when the current composite call started
    metaStep,       \* one InstallationStep: its status and its metadata
    written,        \* history: the latest value written under each metadata key
    hostTracked,    \* whether inEffect is recorded (it is in HostSpec only)
    inEffect        \* the steps whose operation is in effect on the host

ledgerVars == <<torn, ledgerPc, openStep, inFlight, durable, priorPrimary,
                initReturned>>

compositeVars == <<children, cpc, cCaller, cIndex, cExecuted, cQueue, cError,
                   cResult, cTrace, cOrder>>

metadataVars == <<metaStep, written>>

hostVars == <<hostTracked, inEffect>>

txVars == <<operations, pc, pendingSteps, cur, executedOps, rollbackQueue,
            errorMessage, caller, trace, startStatus, clearedAfterSuccess>>

vars == <<state, primary, backup, operations, pc, pendingSteps, cur,
          executedOps, rollbackQueue, errorMessage, result, caller, trace,
          startStatus, clearedAfterSuccess, ledgerVars, compositeVars,
          metadataVars, hostVars>>

locals == <<pendingSteps, cur, executedOps, rollbackQueue, errorMessage>>

files == <<primary, backup>>

----------------------------------------------------------------------------
(* Bounds *)

MaxSteps == 3

MaxChildren == 3

StepIds == 1..MaxSteps

----------------------------------------------------------------------------
(* InstallationStep / InstallationState *)

Status == {"pending", "in_progress", "completed", "failed", "skipped"}

NoError == ""

\* the error text an Operation reports in a failure result (validation.error,
\* result.error); the default texts of lines 124 and 133 stand in when absent
OpError == "op error"

NoState ==
    [present |-> FALSE, totalSteps |-> 0, currentStep |-> 0, steps |-> <<>>]

PendingStep == [status |-> "pending", error |-> NoError]

\* the index of the step with this id (state.steps.find)
HasStep(s, id) == id \in 1..Len(s.steps)

RECURSIVE Reverse(_)
Reverse(seq) ==
    IF seq = <<>> THEN <<>> ELSE Append(Reverse(Tail(seq)), Head(seq))

RECURSIVE FilterIds(_, _, _)
FilterIds(steps, wanted, from) ==
    IF from > Len(steps) THEN <<>>
    ELSE IF steps[from].status \in wanted
         THEN <<from>> \o FilterIds(steps, wanted, from + 1)
         ELSE FilterIds(steps, wanted, from + 1)

\* variant: completed steps are handed out again
GetPendingStepsWithCompleted(s) ==
    IF ~s.present THEN <<>>
    ELSE FilterIds(s.steps, {"pending", "failed", "completed"}, 1)

GetPendingSteps(s) ==
    IF ~s.present THEN <<>> ELSE FilterIds(s.steps, {"pending", "failed"}, 1)

GetCompletedSteps(s) ==
    IF ~s.present THEN <<>> ELSE FilterIds(s.steps, {"completed"}, 1)

\* Math.round((completed / totalSteps) * 100)
GetProgress(s) ==
    IF ~s.present \/ s.totalSteps = 0 THEN 0
    ELSE (200 * Len(GetCompletedSteps(s)) + s.totalSteps) \div (2 * s.totalSteps)

\* variant: a failed step does not count as work that is left
CanResumePendingOnly(s) ==
    IF ~s.present THEN FALSE
    ELSE /\ Len(GetCompletedSteps(s)) > 0
         /\ Len(FilterIds(s.steps, {"pending"}, 1)) > 0

CanResume(s) ==
    IF ~s.present THEN FALSE
    ELSE Len(GetCompletedSteps(s)) > 0 /\ Len(GetPendingSteps(s)) > 0

\* variant: totalSteps is taken from the last index of the array
InitialStateTotalOffByOne(n) ==
    [present |-> TRUE, totalSteps |-> IF n = 0 THEN 0 ELSE n - 1,
     currentStep |-> 0,
     steps |-> [i \in 1..n |->
                  [id |-> i, status |-> PendingStep.status,
                   error |-> PendingStep.error]]]

\* initializeState(): the step of the i-th operation is the i-th of the
\* array and carries the id generated for that operation
InitialState(n) ==
    [present |-> TRUE, totalSteps |-> n, currentStep |-> 0,
     steps |-> [i \in 1..n |->
                  [id |-> i, status |-> PendingStep.status,
                   error |-> PendingStep.error]]]

\* variant: startStep records the position and leaves the status alone
StartStepStateKeepsStatus(s, id) == [s EXCEPT !.currentStep = id - 1]

StartStepState(s, id) ==
    [s EXCEPT !.steps[id].status = "in_progress", !.currentStep = id - 1]

CompleteStepState(s, id) == [s EXCEPT !.steps[id].status = "completed"]

\* variant: a failed step is put back to pending
FailStepStateAsPending(s, id, error) ==
    [s EXCEPT !.steps[id].status = "pending", !.steps[id].error = error]

FailStepState(s, id, error) ==
    [s EXCEPT !.steps[id].status = "failed", !.steps[id].error = error]

SkipStepState(s, id) == [s EXCEPT !.steps[id].status = "skipped"]

\* saveState(): copy the existing primary to the backup, then write the state
SaveState(s) ==
    /\ backup' = IF primary.present THEN primary ELSE backup
    /\ primary' = s

----------------------------------------------------------------------------
(* Results of the API calls *)

NoResult ==
    [kind |-> "none", success |-> FALSE, completedSteps |-> 0,
     totalSteps |-> 0, error |-> <<>>, canResume |-> FALSE]

Raised(message) == [NoResult EXCEPT !.kind = "raised", !.error = <<message>>]

Returned(ok, completed, total, error, resumable) ==
    [kind |-> "returned", success |-> ok, completedSteps |-> completed,
     totalSteps |-> total, error |-> error, canResume |-> resumable]

LoadResult(found) == [NoResult EXCEPT !.kind = "loaded", !.success = found]

StatusesOf(s) == [i \in 1..Len(s.steps) |-> s.steps[i].status]

Event(method, id, outcome) == <<method, id, outcome>>

----------------------------------------------------------------------------
\* an InstallationStep as initializeState() makes it: no metadata yet
MaxValue == 2

MetaKeys == {"path", "port", "skipReason"}

MetaValues == 1..MaxValue

\* step.metadata before anything is attached: spreading undefined gives {}
NoMetadata == [k \in {} |-> 0]

NoMetaStep == [status |-> "pending", metadata |-> NoMetadata]

\* no key written yet (0 stands for "never written")
NothingWritten == [k \in MetaKeys |-> 0]

\* the host after an action: effects holds the steps whose operation is in
\* effect - found already done, or executed and not rolled back since
Host(effects) ==
    /\ hostTracked' = hostTracked
    /\ inEffect' = IF hostTracked THEN effects ELSE inEffect

----------------------------------------------------------------------------
Constructed ==
    /\ state = NoState
    /\ primary = NoState
    /\ backup = NoState
    /\ operations = {}
    /\ pc = "idle"
    /\ pendingSteps = <<>>
    /\ cur = 1
    /\ executedOps = <<>>
    /\ rollbackQueue = <<>>
    /\ errorMessage = <<>>
    /\ result = NoResult
    /\ caller = "none"
    /\ trace = <<>>
    /\ startStatus = <<>>
    /\ clearedAfterSuccess = FALSE
    /\ torn = {}
    /\ ledgerPc = "idle"
    /\ openStep = 0
    /\ inFlight = 0
    /\ durable = NoState
    /\ priorPrimary = NoState
    /\ initReturned = FALSE
    /\ children = <<>>
    /\ cpc = "idle"
    /\ cCaller = "none"
    /\ cIndex = 1
    /\ cExecuted = <<>>
    /\ cQueue = <<>>
    /\ cError = <<>>
    /\ cResult = NoResult
    /\ cTrace = <<>>
    /\ cOrder = <<>>
    /\ metaStep = NoMetaStep
    /\ written = NothingWritten
    /\ inEffect = {}

Init == Constructed /\ hostTracked = FALSE

----------------------------------------------------------------------------
\* the record of the last execute()/resume() call ends with the next API call
Forget ==
    /\ caller' = "none"
    /\ trace' = <<>>
    /\ startStatus' = <<>>

(* TransactionManager.initialize: one pending step per operation, the       *)
(* id -> Operation map, initializeState() and its save, then                *)
(* updateConfiguration() and its save when options.configuration is given.  *)
(* The configuration is opaque to the executor and is left out of the       *)
(* ledger record; its save is kept: it copies the fresh ledger to the       *)
(* backup.                                                                  *)

Initialize(n, withConfiguration) ==
    /\ pc = "idle"
    /\ operations' = 1..n
    /\ state' = InitialState(n)
    /\ IF withConfiguration
       THEN /\ primary' = state'
            /\ backup' = state'
       ELSE SaveState(state')
    /\ result' = NoResult
    /\ clearedAfterSuccess' = FALSE
    /\ Forget
    /\ UNCHANGED <<pc, locals>>
    /\ UNCHANGED <<ledgerVars, compositeVars, metadataVars>>
    /\ Host({})

(* TransactionManager.addOperation.  Step ids are random strings, so a     *)
(* caller can name one only after reading it from the ledger in memory;   *)
(* the caller re-supplies the operations in ledger order.  (execute()     *)
(* stops at the first step without an operation, so a registration past   *)
(* that step changes nothing a call does.)                                *)
AddOperation(id) ==
    /\ pc = "idle"
    /\ state.present
    /\ HasStep(state, id)
    /\ id \notin operations
    /\ \A earlier \in 1..(id - 1) : earlier \in operations
    /\ operations' = operations \cup {id}
    /\ UNCHANGED <<state, files, pc, locals, result, caller, trace,
                   startStatus, clearedAfterSuccess>>
    /\ UNCHANGED <<ledgerVars, compositeVars, metadataVars>>
    /\ UNCHANGED hostVars

\* a file holds a complete TransactionState: it exists and JSON.parse accepts it
Complete(file, name) == file.present /\ name \notin torn

\* variant: a file that does not parse is taken for a missing one
LoadOutcomeCorruptAsMissing ==
    IF Complete(primary, "primary") THEN "read" ELSE "missing"

(* InstallationStateManager.loadState: readTextFile and JSON.parse inside    *)
(* one try.  NotFound returns null; every other error, the SyntaxError of   *)
(* a file that does not parse included, is rethrown as 'Failed to load      *)
(* state'.  this.state is assigned only when the file was read and parsed.  *)
LoadOutcome ==
    IF ~primary.present THEN "missing"
    ELSE IF "primary" \in torn THEN "corrupt"
    ELSE "read"

LoadState == IF LoadOutcome = "read" THEN primary ELSE state

(* TransactionManager.loadExisting: loadState() !== null *)
LoadExisting ==
    /\ pc = "idle"
    /\ ledgerPc = "idle"
    /\ state' = LoadState
    /\ result' = IF LoadOutcome = "corrupt" THEN Raised("Failed to load state")
                 ELSE LoadResult(LoadOutcome = "read")
    /\ Forget
    /\ UNCHANGED <<files, operations, pc, locals, clearedAfterSuccess>>
    /\ UNCHANGED <<ledgerVars, compositeVars, metadataVars>>
    /\ UNCHANGED hostVars

\* variant: only the state in memory is dropped
ClearStateMemoryOnly ==
    /\ state' = NoState
    /\ UNCHANGED files

(* InstallationStateManager.clearState: remove(statePath) then              *)
(* remove(STATE_BACKUP_PATH) inside one try; a NotFound of the first        *)
(* remove skips the second.  this.state = null in every case.               *)
ClearState ==
    /\ primary' = NoState
    /\ backup' = IF primary.present THEN NoState ELSE backup
    /\ state' = NoState

(* TransactionManager.clear *)
Clear ==
    /\ pc = "idle"
    /\ ClearState
    /\ operations' = {}
    /\ clearedAfterSuccess' =
          (clearedAfterSuccess \/ (result.kind = "returned" /\ result.success))
    /\ result' = NoResult
    /\ Forget
    /\ UNCHANGED <<pc, locals>>
    /\ UNCHANGED <<ledgerVars, compositeVars, metadataVars>>
    /\ UNCHANGED hostVars

----------------------------------------------------------------------------
(* TransactionManager.execute *)

\* lines 96-97: the locals of a call that passed the state check
Begin(s, api) ==
    /\ caller' = api
    /\ pendingSteps' = GetPendingSteps(s)
    /\ executedOps' = <<>>
    /\ rollbackQueue' = <<>>
    /\ errorMessage' = <<>>
    /\ cur' = 1
    /\ pc' = "loop"
    /\ trace' = <<>>
    /\ startStatus' = StatusesOf(s)
    /\ result' = NoResult

\* the call is over: its locals are gone
Leave ==
    /\ pc' = "idle"
    /\ pendingSteps' = <<>>
    /\ cur' = 1
    /\ executedOps' = <<>>
    /\ rollbackQueue' = <<>>
    /\ errorMessage' = <<>>

\* variant: the catch block visits executedOps in execution order
RollbackOrderForward(ops) == ops

\* executedOps.reverse(): the order the catch block visits the operations in
RollbackOrder(ops) == Reverse(ops)

\* the message of an error an Operation method threw: the text is the
\* Operation's own, the executor adds no step description to it (position 1
\* of a message holds the step the executor names, 0 when it names none)
Thrown(text) == <<0, text>>

\* an error thrown inside the try block: control moves to the catch block
Catch(message) ==
    /\ errorMessage' = message
    /\ rollbackQueue' = RollbackOrder(executedOps)
    /\ pc' = "rollback"

\* variant: the check of the state is missing, execute() runs on no steps
ExecuteWithoutStateCheck ==
    /\ pc = "idle"
    /\ Begin(state, "execute")
    /\ UNCHANGED <<state, files, operations, clearedAfterSuccess>>
    /\ UNCHANGED <<ledgerVars, compositeVars, metadataVars>>
    /\ UNCHANGED hostVars

Execute ==
    /\ pc = "idle"
    /\ IF ~state.present
       THEN /\ result' = Raised("notInitialized")
            /\ Forget
            /\ UNCHANGED <<pc, locals>>
       ELSE Begin(state, "execute")
    /\ UNCHANGED <<state, files, operations, clearedAfterSuccess>>
    /\ UNCHANGED <<ledgerVars, compositeVars, metadataVars>>
    /\ UNCHANGED hostVars

(* TransactionManager.resume: loadState(), canResume(), then execute() *)
Resume ==
    /\ pc = "idle"
    /\ state' = LoadState
    /\ IF LoadOutcome = "corrupt"
       THEN /\ result' = Raised("Failed to load state")
            /\ Forget
            /\ UNCHANGED <<pc, locals>>
       ELSE IF LoadOutcome = "missing"
       THEN /\ result' = Raised("noExistingTransaction")
            /\ Forget
            /\ UNCHANGED <<pc, locals>>
       ELSE IF ~CanResume(state')
       THEN /\ result' = Raised("cannotResume")
            /\ Forget
            /\ UNCHANGED <<pc, locals>>
       ELSE Begin(state', "resume")
    /\ UNCHANGED <<files, operations, clearedAfterSuccess>>
    /\ UNCHANGED <<ledgerVars, compositeVars, metadataVars>>
    /\ UNCHANGED hostVars

InLoop == pc = "loop" /\ cur <= Len(pendingSteps)

CurrentStep == pendingSteps[cur]

OperationNotFoundAfterStart ==
    /\ InLoop
    /\ CurrentStep \notin operations
    /\ state' = StartStepState(state, CurrentStep)
    /\ SaveState(state')
    /\ Catch(<<CurrentStep, "Operation not found for step">>)
    /\ UNCHANGED <<operations, pendingSteps, cur, executedOps,
                   result, caller, trace, startStatus, clearedAfterSuccess>>
    /\ UNCHANGED <<ledgerVars, compositeVars, metadataVars>>
    /\ UNCHANGED hostVars

\* lines 104-107: no operation registered for the step
OperationNotFound ==
    /\ InLoop
    /\ CurrentStep \notin operations
    /\ Catch(<<CurrentStep, "Operation not found for step">>)
    /\ UNCHANGED <<state, files, operations, pendingSteps, cur, executedOps,
                   result, caller, trace, startStatus, clearedAfterSuccess>>
    /\ UNCHANGED <<ledgerVars, compositeVars, metadataVars>>
    /\ UNCHANGED hostVars

\* line 112: startStep and its save
StartStep ==
    /\ InLoop
    /\ CurrentStep \in operations
    /\ state' = StartStepState(state, CurrentStep)
    /\ SaveState(state')
    /\ pc' = "isAlreadyDone"
    /\ UNCHANGED <<operations, pendingSteps, cur, executedOps, rollbackQueue,
                   errorMessage, result, caller, trace, startStatus,
                   clearedAfterSuccess>>
    /\ UNCHANGED <<ledgerVars, compositeVars, metadataVars>>
    /\ UNCHANGED hostVars

\* variant: the continue after skipStep is missing
IsAlreadyDoneFallsThrough(outcome) ==
    /\ pc = "isAlreadyDone"
    /\ trace' = Append(trace, Event("isAlreadyDone", CurrentStep, outcome))
    /\ CASE outcome = "true" ->
              /\ state' = SkipStepState(state, CurrentStep)
              /\ SaveState(state')
              /\ pc' = "validate"
              /\ UNCHANGED <<cur, rollbackQueue, errorMessage>>
         [] outcome = "false" ->
              /\ pc' = "validate"
              /\ UNCHANGED <<state, files, cur, rollbackQueue, errorMessage>>
         [] outcome = "throw" ->
              /\ Catch(Thrown("isAlreadyDone threw"))
              /\ UNCHANGED <<state, files, cur>>
    /\ UNCHANGED <<operations, pendingSteps, executedOps, result, caller,
                   startStatus, clearedAfterSuccess>>
    /\ UNCHANGED <<ledgerVars, compositeVars, metadataVars>>
    /\ Host(IF outcome = "true" THEN inEffect \cup {CurrentStep} ELSE inEffect)

\* lines 115-119: the idempotency probe, and skipStep when it answers true
IsAlreadyDone(outcome) ==
    /\ pc = "isAlreadyDone"
    /\ trace' = Append(trace, Event("isAlreadyDone", CurrentStep, outcome))
    /\ CASE outcome = "true" ->
              /\ state' = SkipStepState(state, CurrentStep)
              /\ SaveState(state')
              /\ cur' = cur + 1
              /\ pc' = "loop"
              /\ UNCHANGED <<rollbackQueue, errorMessage>>
         [] outcome = "false" ->
              /\ pc' = "validate"
              /\ UNCHANGED <<state, files, cur, rollbackQueue, errorMessage>>
         [] outcome = "throw" ->
              /\ Catch(Thrown("isAlreadyDone threw"))
              /\ UNCHANGED <<state, files, cur>>
    /\ UNCHANGED <<operations, pendingSteps, executedOps, result, caller,
                   startStatus, clearedAfterSuccess>>
    /\ UNCHANGED <<ledgerVars, compositeVars, metadataVars>>
    /\ Host(IF outcome = "true" THEN inEffect \cup {CurrentStep} ELSE inEffect)

\* variant: a validation that does not pass is logged and execution goes on
ValidateNotEnforced(outcome) ==
    /\ pc = "validate"
    /\ trace' = Append(trace, Event("validate", CurrentStep, outcome))
    /\ CASE outcome \in {"ok", "fail"} ->
              /\ pc' = "execute"
              /\ UNCHANGED <<state, files, rollbackQueue, errorMessage>>
         [] outcome = "throw" ->
              /\ Catch(Thrown("validate threw"))
              /\ UNCHANGED <<state, files>>
    /\ UNCHANGED <<operations, pendingSteps, cur, executedOps, result,
                   caller, startStatus, clearedAfterSuccess>>
    /\ UNCHANGED <<ledgerVars, compositeVars, metadataVars>>
    /\ UNCHANGED hostVars

\* lines 122-128: validate, and failStep plus throw when it does not pass
Validate(outcome) ==
    /\ pc = "validate"
    /\ trace' = Append(trace, Event("validate", CurrentStep, outcome))
    /\ CASE outcome = "ok" ->
              /\ pc' = "execute"
              /\ UNCHANGED <<state, files, rollbackQueue, errorMessage>>
         [] outcome = "fail" ->
              /\ state' = FailStepState(state, CurrentStep, OpError)
              /\ SaveState(state')
              /\ Catch(<<CurrentStep, "validation failed">>)
         [] outcome = "throw" ->
              /\ Catch(Thrown("validate threw"))
              /\ UNCHANGED <<state, files>>
    /\ UNCHANGED <<operations, pendingSteps, cur, executedOps, result,
                   caller, startStatus, clearedAfterSuccess>>
    /\ UNCHANGED <<ledgerVars, compositeVars, metadataVars>>
    /\ UNCHANGED hostVars

\* lines 131-137: execute, and failStep plus throw when it reports failure
ExecuteOperation(outcome) ==
    /\ pc = "execute"
    /\ trace' = Append(trace, Event("execute", CurrentStep, outcome))
    /\ CASE outcome = "ok" ->
              /\ pc' = "completeStep"
              /\ UNCHANGED <<state, files, rollbackQueue, errorMessage>>
         [] outcome = "fail" ->
              /\ state' = FailStepState(state, CurrentStep, OpError)
              /\ SaveState(state')
              /\ Catch(<<CurrentStep, "failed">>)
         [] outcome = "throw" ->
              /\ Catch(Thrown("execute threw"))
              /\ UNCHANGED <<state, files>>
    /\ UNCHANGED <<operations, pendingSteps, cur, executedOps, result,
                   caller, startStatus, clearedAfterSuccess>>
    /\ UNCHANGED <<ledgerVars, compositeVars, metadataVars>>
    /\ Host(IF outcome = "ok" THEN inEffect \cup {CurrentStep} ELSE inEffect)

\* lines 140-141: completeStep and its save, then executedOps.push
CompleteStep ==
    /\ pc = "completeStep"
    /\ state' = CompleteStepState(state, CurrentStep)
    /\ SaveState(state')
    /\ executedOps' = Append(executedOps, CurrentStep)
    /\ cur' = cur + 1
    /\ pc' = "loop"
    /\ UNCHANGED <<operations, pendingSteps, rollbackQueue, errorMessage,
                   result, caller, trace, startStatus, clearedAfterSuccess>>
    /\ UNCHANGED <<ledgerVars, compositeVars, metadataVars>>
    /\ UNCHANGED hostVars

\* lines 145-153: the loop ran to its end
ReturnSuccess ==
    /\ pc = "loop"
    /\ cur > Len(pendingSteps)
    /\ result' = Returned(TRUE, state.totalSteps, state.totalSteps, <<>>, FALSE)
    /\ Leave
    /\ UNCHANGED <<state, files, operations, caller, trace, startStatus,
                   clearedAfterSuccess>>
    /\ UNCHANGED <<ledgerVars, compositeVars, metadataVars>>
    /\ UNCHANGED hostVars

\* variant: a rollback that throws ends the loop and replaces the error
RollbackAbortsOnThrow(outcome) ==
    /\ pc = "rollback"
    /\ rollbackQueue # <<>>
    /\ trace' = Append(trace, Event("rollback", Head(rollbackQueue), outcome))
    /\ IF outcome = "throw"
       THEN /\ rollbackQueue' = <<>>
            /\ errorMessage' = Thrown("rollback threw")
       ELSE /\ rollbackQueue' = Tail(rollbackQueue)
            /\ UNCHANGED errorMessage
    /\ UNCHANGED <<state, files, operations, pc, pendingSteps, cur,
                   executedOps, result, caller, startStatus,
                   clearedAfterSuccess>>
    /\ UNCHANGED <<ledgerVars, compositeVars, metadataVars>>
    /\ Host(inEffect \ {Head(rollbackQueue)})

\* variant: a rolled back step is written back to the ledger as pending
RollbackResetsStatus(outcome) ==
    /\ pc = "rollback"
    /\ rollbackQueue # <<>>
    /\ trace' = Append(trace, Event("rollback", Head(rollbackQueue), outcome))
    /\ rollbackQueue' = Tail(rollbackQueue)
    /\ state' = [state EXCEPT !.steps[Head(rollbackQueue)].status = "pending"]
    /\ SaveState(state')
    /\ UNCHANGED <<operations, pc, pendingSteps, cur, executedOps,
                   errorMessage, result, caller, startStatus,
                   clearedAfterSuccess>>
    /\ UNCHANGED <<ledgerVars, compositeVars, metadataVars>>
    /\ Host(inEffect \ {Head(rollbackQueue)})

\* lines 161-173: one iteration of the rollback loop; a rollback that throws
\* is logged and the loop goes on
Rollback(outcome) ==
    /\ pc = "rollback"
    /\ rollbackQueue # <<>>
    /\ trace' = Append(trace, Event("rollback", Head(rollbackQueue), outcome))
    /\ rollbackQueue' = Tail(rollbackQueue)
    /\ UNCHANGED <<state, files, operations, pc, pendingSteps, cur,
                   executedOps, errorMessage, result, caller, startStatus,
                   clearedAfterSuccess>>
    /\ UNCHANGED <<ledgerVars, compositeVars, metadataVars>>
    /\ Host(inEffect \ {Head(rollbackQueue)})

\* lines 178-184: the failure result
ReturnFailure ==
    /\ pc = "rollback"
    /\ rollbackQueue = <<>>
    /\ result' = Returned(FALSE, Len(GetCompletedSteps(state)), state.totalSteps,
                          errorMessage, CanResume(state))
    /\ Leave
    /\ UNCHANGED <<state, files, operations, caller, trace, startStatus,
                   clearedAfterSuccess>>
    /\ UNCHANGED <<ledgerVars, compositeVars, metadataVars>>
    /\ UNCHANGED hostVars

----------------------------------------------------------------------------
(* A process interruption: everything in memory is lost, the files stay.  *)
(* The next process starts with a new TransactionManager.                 *)
Crash ==
    /\ state' = NoState
    /\ operations' = {}
    /\ Leave
    /\ result' = NoResult
    /\ Forget
    /\ UNCHANGED <<files, clearedAfterSuccess>>
    /\ UNCHANGED <<ledgerVars, compositeVars, metadataVars>>
    /\ UNCHANGED hostVars

IsAlreadyDoneOutcomes == {"true", "false", "throw"}

ResultOutcomes == {"ok", "fail", "throw"}

RollbackOutcomes == {"ok", "throw"}

Next ==
    \/ \E n \in 0..MaxSteps, c \in BOOLEAN : Initialize(n, c)
    \/ \E id \in StepIds : AddOperation(id)
    \/ LoadExisting
    \/ Clear
    \/ Execute
    \/ Resume
    \/ OperationNotFound
    \/ StartStep
    \/ \E o \in IsAlreadyDoneOutcomes : IsAlreadyDone(o)
    \/ \E o \in ResultOutcomes : Validate(o)
    \/ \E o \in ResultOutcomes : ExecuteOperation(o)
    \/ CompleteStep
    \/ ReturnSuccess
    \/ \E o \in RollbackOutcomes : Rollback(o)
    \/ ReturnFailure
    \/ Crash

Spec == Init /\ [][Next]_vars

TypeOK ==
    /\ pc \in {"idle", "loop", "isAlreadyDone", "validate", "execute",
               "completeStep", "rollback"}
    /\ operations \subseteq StepIds
    /\ state.present => Len(state.steps) = state.totalSteps
    /\ \A i \in 1..Len(state.steps) : state.steps[i].status \in Status

----------------------------------------------------------------------------
(* A save that fails inside execute().  SaveFaultSpec is Spec with one     *)
(* more outcome of completeStep(): saveState() throws 'Failed to save      *)
(* state' (the directory cannot be created or the file cannot be opened    *)
(* for writing, as on a read-only file system), so no file changes.        *)

\* lines 140-141 when the save of completeStep() throws: the step is
\* completed in memory only, executedOps.push is not reached, and control
\* moves to the catch block
CompleteStepSaveFails ==
    /\ pc = "completeStep"
    /\ state' = CompleteStepState(state, CurrentStep)
    /\ Catch(Thrown("Failed to save state"))
    /\ UNCHANGED <<files, operations, pendingSteps, cur, executedOps, result,
                   caller, trace, startStatus, clearedAfterSuccess>>
    /\ UNCHANGED <<ledgerVars, compositeVars, metadataVars>>
    /\ UNCHANGED hostVars

SaveFaultNext ==
    \/ Next
    \/ CompleteStepSaveFails

SaveFaultSpec == Init /\ [][SaveFaultNext]_vars

----------------------------------------------------------------------------
(* The ledger files under interruption and write failure.                  *)
(*                                                                         *)
(* LedgerSpec follows the InstallationStateManager calls that a            *)
(* TransactionManager makes (initializeState, loadState, startStep on the  *)
(* first pending or failed step, then completeStep, failStep or skipStep   *)
(* on that step, clearState) with saveState() and clearState() taken one   *)
(* file operation at a time.  Deno.copyFile and Deno.writeTextFile         *)
(* overwrite their target in place: a process killed inside one of them,   *)
(* or a write that fails part way (disk full), leaves the target with      *)
(* incomplete content, which JSON.parse rejects.  The Operations and the   *)
(* locals of execute() play no part here and stay as Init leaves them.     *)

\* what a file holds after an incomplete write; the file is then in torn
TornFile ==
    [present |-> TRUE, totalSteps |-> 0, currentStep |-> 0, steps |-> <<>>]

SavedResult == [NoResult EXCEPT !.kind = "saved"]

ClearedResult == [NoResult EXCEPT !.kind = "cleared"]

\* a transition method has changed this.state and calls saveState()
BeginSave(s, step) ==
    /\ ledgerPc = "idle"
    /\ state' = s
    /\ inFlight' = step
    /\ ledgerPc' = "copy"
    /\ result' = NoResult
    /\ priorPrimary' = NoState
    /\ UNCHANGED <<primary, backup, torn, txVars, metadataVars, hostVars, compositeVars>>

\* initializeState() up to the first file operation of its saveState()
InitializeState(n) ==
    /\ BeginSave(InitialState(n), 0)
    /\ openStep' = 0
    /\ durable' = NoState
    /\ UNCHANGED initReturned

\* startStep() on the step execute() reaches next, up to its saveState()
LedgerStartStep ==
    /\ state.present
    /\ openStep = 0
    /\ GetPendingSteps(state) # <<>>
    /\ BeginSave(StartStepState(state, Head(GetPendingSteps(state))),
                 Head(GetPendingSteps(state)))
    /\ openStep' = Head(GetPendingSteps(state))
    /\ UNCHANGED <<durable, initReturned>>

\* completeStep(), skipStep() or failStep() on the started step
LedgerFinishStep(how) ==
    /\ state.present
    /\ openStep # 0
    /\ BeginSave(CASE how = "complete" -> CompleteStepState(state, openStep)
                   [] how = "skip" -> SkipStepState(state, openStep)
                   [] how = "fail" -> FailStepState(state, openStep, OpError),
                 openStep)
    /\ openStep' = 0
    /\ UNCHANGED <<durable, initReturned>>

\* an Operation method throws: execute() ends with the step left as started
OperationThrows ==
    /\ ledgerPc = "idle"
    /\ openStep # 0
    /\ openStep' = 0
    /\ UNCHANGED <<state, primary, backup, result, torn, ledgerPc, inFlight,
                   durable, priorPrimary, initReturned, txVars, metadataVars, hostVars, compositeVars>>

\* variant: the save goes straight to the write, nothing is copied
SaveCopySkipped ==
    /\ ledgerPc = "copy"
    /\ priorPrimary' = primary
    /\ ledgerPc' = "write"
    /\ UNCHANGED <<backup, torn>>
    /\ UNCHANGED <<state, primary, result, openStep, inFlight, durable,
                   initReturned, txVars, metadataVars, hostVars, compositeVars>>

\* saveState(), lines 107-111: copyFile of the primary onto the backup; a
\* missing primary makes it throw, which is ignored
SaveCopy ==
    /\ ledgerPc = "copy"
    /\ priorPrimary' = primary
    /\ IF primary.present
       THEN /\ backup' = primary
            /\ torn' = IF "primary" \in torn THEN torn \cup {"backup"}
                       ELSE torn \ {"backup"}
       ELSE UNCHANGED <<backup, torn>>
    /\ ledgerPc' = "write"
    /\ UNCHANGED <<state, primary, result, openStep, inFlight, durable,
                   initReturned, txVars, metadataVars, hostVars, compositeVars>>

\* saveState(), line 113: writeTextFile of the state over the primary; when
\* the write fails part way saveState() throws 'Failed to save state' and
\* the call of the manager that asked for the transition ends
SaveWrite(outcome) ==
    /\ ledgerPc = "write"
    /\ ledgerPc' = "idle"
    /\ IF outcome = "ok"
       THEN /\ primary' = state
            /\ torn' = torn \ {"primary"}
            /\ durable' = state
            /\ initReturned' = (initReturned \/ inFlight = 0)
            /\ result' = SavedResult
            /\ UNCHANGED openStep
       ELSE /\ primary' = TornFile
            /\ torn' = torn \cup {"primary"}
            /\ result' = Raised("Failed to save state")
            /\ openStep' = 0
            /\ UNCHANGED <<durable, initReturned>>
    /\ UNCHANGED <<state, backup, inFlight, priorPrimary, txVars, metadataVars, hostVars,
                   compositeVars>>

\* clearState(), line 287: remove(statePath).  When the file is missing the
\* NotFound error leaves the try block: the backup is not removed.
ClearRemovePrimary ==
    /\ ledgerPc = "idle"
    /\ openStep' = 0
    /\ durable' = NoState
    /\ initReturned' = FALSE
    /\ IF primary.present
       THEN /\ primary' = NoState
            /\ torn' = torn \ {"primary"}
            /\ ledgerPc' = "clearBackup"
            /\ result' = NoResult
            /\ UNCHANGED state
       ELSE /\ state' = NoState
            /\ result' = ClearedResult
            /\ UNCHANGED <<primary, torn, ledgerPc>>
    /\ priorPrimary' = NoState
    /\ UNCHANGED <<backup, inFlight, txVars, metadataVars, hostVars, compositeVars>>

\* clearState(), lines 288-293: remove(STATE_BACKUP_PATH), this.state = null
ClearRemoveBackup ==
    /\ ledgerPc = "clearBackup"
    /\ backup' = NoState
    /\ torn' = torn \ {"backup"}
    /\ state' = NoState
    /\ ledgerPc' = "idle"
    /\ result' = ClearedResult
    /\ UNCHANGED <<primary, openStep, inFlight, durable, priorPrimary,
                   initReturned, txVars, metadataVars, hostVars, compositeVars>>

\* the process is killed; inside copyFile or writeTextFile (midway) the
\* target keeps what had been written of it by then
KillProcess(midway) ==
    /\ state' = NoState
    /\ openStep' = 0
    /\ ledgerPc' = "idle"
    /\ result' = NoResult
    /\ CASE midway /\ ledgerPc = "copy" /\ primary.present ->
              /\ backup' = TornFile
              /\ torn' = torn \cup {"backup"}
              /\ UNCHANGED primary
         [] midway /\ ledgerPc = "write" ->
              /\ primary' = TornFile
              /\ torn' = torn \cup {"primary"}
              /\ UNCHANGED backup
         [] OTHER -> UNCHANGED <<primary, backup, torn>>
    /\ priorPrimary' = NoState
    /\ UNCHANGED <<inFlight, durable, initReturned, txVars, metadataVars, hostVars, compositeVars>>

FinishOutcomes == {"complete", "skip", "fail"}

WriteOutcomes == {"ok", "partial"}

LedgerNext ==
    \/ \E n \in 0..MaxSteps : InitializeState(n)
    \/ LoadExisting
    \/ LedgerStartStep
    \/ \E how \in FinishOutcomes : LedgerFinishStep(how)
    \/ OperationThrows
    \/ SaveCopy
    \/ \E o \in WriteOutcomes : SaveWrite(o)
    \/ ClearRemovePrimary
    \/ ClearRemoveBackup
    \/ \E midway \in BOOLEAN : KillProcess(midway)

LedgerSpec == Init /\ [][LedgerNext]_vars

LedgerTypeOK ==
    /\ ledgerPc \in {"idle", "copy", "write", "clearBackup"}
    /\ torn \subseteq {"primary", "backup"}
    /\ openStep \in 0..MaxSteps
    /\ inFlight \in 0..MaxSteps
    /\ "primary" \in torn => primary = TornFile
    /\ "backup" \in torn => backup = TornFile

----------------------------------------------------------------------------
(* CompositeOperation (operations.ts).  A child is modelled by its         *)
(* position in the array the constructor received; the outcome of each     *)
(* child method is an input of the action that awaits it.  The ledger and  *)
(* the TransactionManager play no part here and stay as Init leaves them.  *)

\* successResult() / errorResult(error)
OperationResult(ok, error) ==
    [NoResult EXCEPT !.kind = "returned", !.success = ok, !.error = error]

\* new CompositeOperation(description, operations)
Construct(n) ==
    /\ cpc = "idle"
    /\ children' = [i \in 1..n |-> i]
    /\ cCaller' = "none"
    /\ cResult' = NoResult
    /\ cTrace' = <<>>
    /\ cOrder' = <<>>
    /\ UNCHANGED <<cpc, cIndex, cExecuted, cQueue, cError>>
    /\ UNCHANGED <<state, primary, backup, result, txVars, metadataVars, hostVars, ledgerVars>>

\* execute(), lines 104-107: the locals, then the for loop over this.operations
CompositeExecute ==
    /\ cpc = "idle"
    /\ cCaller' = "execute"
    /\ cpc' = "isAlreadyDone"
    /\ cIndex' = 1
    /\ cExecuted' = <<>>
    /\ cQueue' = <<>>
    /\ cError' = <<>>
    /\ cResult' = NoResult
    /\ cTrace' = <<>>
    /\ cOrder' = children
    /\ UNCHANGED children
    /\ UNCHANGED <<state, primary, backup, result, txVars, metadataVars, hostVars, ledgerVars>>

\* the call is over: its locals are gone
CompositeLeave ==
    /\ cpc' = "idle"
    /\ cIndex' = 1
    /\ cExecuted' = <<>>
    /\ cQueue' = <<>>
    /\ cError' = <<>>

CurrentChild == children[cIndex]

\* variant: the catch block visits executedOps in execution order
CompositeCatchForward(message) ==
    /\ cError' = message
    /\ cQueue' = cExecuted
    /\ cpc' = "catch"

\* an error thrown inside the try block of execute(): executedOps.reverse()
CompositeCatch(message) ==
    /\ cError' = message
    /\ cQueue' = Reverse(cExecuted)
    /\ cpc' = "catch"

\* lines 108-112: the idempotency probe of the next child
ChildIsAlreadyDone(outcome) ==
    /\ cpc = "isAlreadyDone"
    /\ cIndex <= Len(children)
    /\ cTrace' = Append(cTrace, Event("isAlreadyDone", CurrentChild, outcome))
    /\ CASE outcome = "true" ->
              /\ cIndex' = cIndex + 1
              /\ UNCHANGED <<cpc, cQueue, cError>>
         [] outcome = "false" ->
              /\ cpc' = "validate"
              /\ UNCHANGED <<cIndex, cQueue, cError>>
         [] outcome = "throw" ->
              /\ CompositeCatch(Thrown("isAlreadyDone threw"))
              /\ UNCHANGED cIndex
    /\ UNCHANGED <<children, cCaller, cExecuted, cResult, cOrder>>
    /\ UNCHANGED <<state, primary, backup, result, txVars, metadataVars, hostVars, ledgerVars>>

\* lines 114-120: validate, and the throw when it does not pass
ChildValidate(outcome) ==
    /\ cpc = "validate"
    /\ cTrace' = Append(cTrace, Event("validate", CurrentChild, outcome))
    /\ CASE outcome = "ok" ->
              /\ cpc' = "execute"
              /\ UNCHANGED <<cQueue, cError>>
         [] outcome = "fail" ->
              CompositeCatch(<<CurrentChild, "Validation failed for">>)
         [] outcome = "throw" ->
              CompositeCatch(Thrown("validate threw"))
    /\ UNCHANGED <<children, cCaller, cIndex, cExecuted, cResult, cOrder>>
    /\ UNCHANGED <<state, primary, backup, result, txVars, metadataVars, hostVars, ledgerVars>>

\* lines 122-129: execute, the throw when it reports failure, else the push
ChildExecute(outcome) ==
    /\ cpc = "execute"
    /\ cTrace' = Append(cTrace, Event("execute", CurrentChild, outcome))
    /\ CASE outcome = "ok" ->
              /\ cExecuted' = Append(cExecuted, CurrentChild)
              /\ cIndex' = cIndex + 1
              /\ cpc' = "isAlreadyDone"
              /\ UNCHANGED <<cQueue, cError>>
         [] outcome = "fail" ->
              /\ CompositeCatch(<<CurrentChild, "failed">>)
              /\ UNCHANGED <<cExecuted, cIndex>>
         [] outcome = "throw" ->
              /\ CompositeCatch(Thrown("execute threw"))
              /\ UNCHANGED <<cExecuted, cIndex>>
    /\ UNCHANGED <<children, cCaller, cResult, cOrder>>
    /\ UNCHANGED <<state, primary, backup, result, txVars, metadataVars, hostVars, ledgerVars>>

\* line 132: the loop ran to its end
CompositeReturnSuccess ==
    /\ cpc = "isAlreadyDone"
    /\ cIndex > Len(children)
    /\ cResult' = OperationResult(TRUE, <<>>)
    /\ CompositeLeave
    /\ UNCHANGED <<children, cCaller, cTrace, cOrder>>
    /\ UNCHANGED <<state, primary, backup, result, txVars, metadataVars, hostVars, ledgerVars>>

\* lines 138-147: one iteration of the rollback loop of the catch block; a
\* rollback that throws is logged and the loop goes on
ChildRollback(outcome) ==
    /\ cpc = "catch"
    /\ cQueue # <<>>
    /\ cTrace' = Append(cTrace, Event("rollback", Head(cQueue), outcome))
    /\ cQueue' = Tail(cQueue)
    /\ UNCHANGED <<children, cpc, cCaller, cIndex, cExecuted, cError, cResult,
                   cOrder>>
    /\ UNCHANGED <<state, primary, backup, result, txVars, metadataVars, hostVars, ledgerVars>>

\* line 149: errorResult(error.message)
CompositeReturnFailure ==
    /\ cpc = "catch"
    /\ cQueue = <<>>
    /\ cResult' = OperationResult(FALSE, cError)
    /\ CompositeLeave
    /\ UNCHANGED <<children, cCaller, cTrace, cOrder>>
    /\ UNCHANGED <<state, primary, backup, result, txVars, metadataVars, hostVars, ledgerVars>>

\* rollback(), line 156: this.operations.reverse() reverses the array of the
\* composite in place and the loop runs over the reversed array
CompositeRollback ==
    /\ cpc = "idle"
    /\ cCaller' = "rollback"
    /\ cOrder' = children
    /\ children' = Reverse(children)
    /\ cQueue' = Reverse(children)
    /\ cpc' = "rollback"
    /\ cResult' = NoResult
    /\ cTrace' = <<>>
    /\ UNCHANGED <<cIndex, cExecuted, cError>>
    /\ UNCHANGED <<state, primary, backup, result, txVars, metadataVars, hostVars, ledgerVars>>

\* rollback(), line 157: the rollback of the next child; an error it throws
\* is not caught and ends the call
RollbackChild(outcome) ==
    /\ cpc = "rollback"
    /\ cQueue # <<>>
    /\ cTrace' = Append(cTrace, Event("rollback", Head(cQueue), outcome))
    /\ IF outcome = "throw"
       THEN /\ cResult' = Raised("rollback threw")
            /\ CompositeLeave
       ELSE /\ cQueue' = Tail(cQueue)
            /\ UNCHANGED <<cpc, cIndex, cExecuted, cError, cResult>>
    /\ UNCHANGED <<children, cCaller, cOrder>>
    /\ UNCHANGED <<state, primary, backup, result, txVars, metadataVars, hostVars, ledgerVars>>

\* rollback(), line 159
CompositeRollbackReturn ==
    /\ cpc = "rollback"
    /\ cQueue = <<>>
    /\ cResult' = OperationResult(TRUE, <<>>)
    /\ CompositeLeave
    /\ UNCHANGED <<children, cCaller, cTrace, cOrder>>
    /\ UNCHANGED <<state, primary, backup, result, txVars, metadataVars, hostVars, ledgerVars>>

CompositeNext ==
    \/ \E n \in 0..MaxChildren : Construct(n)
    \/ CompositeExecute
    \/ \E o \in IsAlreadyDoneOutcomes : ChildIsAlreadyDone(o)
    \/ \E o \in ResultOutcomes : ChildValidate(o)
    \/ \E o \in ResultOutcomes : ChildExecute(o)
    \/ CompositeReturnSuccess
    \/ \E o \in RollbackOutcomes : ChildRollback(o)
    \/ CompositeReturnFailure
    \/ CompositeRollback
    \/ \E o \in RollbackOutcomes : RollbackChild(o)
    \/ CompositeRollbackReturn

CompositeSpec == Init /\ [][CompositeNext]_vars

CompositeTypeOK ==
    /\ cpc \in {"idle", "isAlreadyDone", "validate", "execute", "catch",
                "rollback"}
    /\ cCaller \in {"none", "execute", "rollback"}
    /\ Len(children) <= MaxChildren
    /\ \A k \in 1..Len(children) : children[k] \in 1..MaxChildren

----------------------------------------------------------------------------
(* What the current (or last) execute()/resume() call did, read off trace *)

IdsOf(events) == [k \in 1..Len(events) |-> events[k][2]]

IsRollback(e) == e[1] = "rollback"

IsExecuteOk(e) == e[1] = "execute" /\ e[3] = "ok"

IsTrigger(e) == e[1] # "rollback" /\ e[3] \in {"fail", "throw"}

\* ids of the operations whose execute() succeeded in this call, in order
ExecutedOk == IdsOf(SelectSeq(trace, IsExecuteOk))

\* ids of the operations whose rollback() was invoked in this call, in order
RolledBack == IdsOf(SelectSeq(trace, IsRollback))

IsPrefix(a, b) == Len(a) <= Len(b) /\ \A k \in 1..Len(a) : a[k] = b[k]

Invoked(method, id) ==
    \E k \in 1..Len(trace) : trace[k][1] = method /\ trace[k][2] = id

Finished == pc = "idle" /\ result.kind = "returned"

FailedReturn == Finished /\ ~result.success

\* the step failed in validate() or in execute()
FailedInOperation ==
    \E k \in 1..Len(trace) :
        trace[k][1] \in {"validate", "execute"} /\ trace[k][3] \in {"fail", "throw"}

----------------------------------------------------------------------------
\* C1 - Rollback ordering: when a step fails in validate() or execute(),
\* rollback() is invoked exactly once on each operation whose execute()
\* succeeded earlier in the same call, in the exact reverse of the execution
\* order, and never on the failing operation or on a later one.
C1_RollbackOrdering ==
    /\ IsPrefix(RolledBack, Reverse(ExecutedOk))
    /\ (FailedReturn /\ FailedInOperation) => RolledBack = Reverse(ExecutedOk)

\* [A, B, C] with C failing in execute(): B.rollback() then A.rollback()
C1_Witness ==
    /\ FailedReturn
    /\ Invoked("execute", 3)
    /\ ExecutedOk = <<1, 2>>
    /\ RolledBack = <<2, 1>>

\* C2 - Best-effort rollback: when a rollback() raises, rollback() is still
\* invoked on every remaining executed operation, and the result is
\* success=false with the error of the step that triggered the rollback.
RollbackRaised ==
    \E k \in 1..Len(trace) : trace[k][1] = "rollback" /\ trace[k][3] = "throw"

TriggerText(e) ==
    IF e[1] = "validate" /\ e[3] = "fail" THEN "validation failed"
    ELSE IF e[1] = "execute" /\ e[3] = "fail" THEN "failed"
    ELSE IF e[1] = "validate" THEN "validate threw"
    ELSE IF e[1] = "execute" THEN "execute threw"
    ELSE "isAlreadyDone threw"

OriginalFailureReported ==
    LET triggers == SelectSeq(trace, IsTrigger)
    IN  IF triggers # <<>>
        THEN result.error =
                 IF triggers[1][3] = "throw"
                 THEN Thrown(TriggerText(triggers[1]))
                 ELSE <<triggers[1][2], TriggerText(triggers[1])>>
        ELSE result.error[2] = "Operation not found for step"

C2_BestEffortRollback ==
    (Finished /\ RollbackRaised) =>
        /\ ~result.success
        /\ RolledBack = Reverse(ExecutedOk)
        /\ OriginalFailureReported

\* C fails, B.rollback() raises, A.rollback() is still invoked
C2_Witness ==
    /\ FailedReturn
    /\ ExecutedOk = <<1, 2>>
    /\ \E k \in 1..Len(trace) :
          /\ trace[k] = Event("rollback", 2, "throw")
          /\ k < Len(trace)
          /\ trace[k + 1][1] = "rollback"
          /\ trace[k + 1][2] = 1

\* C3 - Resume completeness: resume() never invokes execute() or rollback()
\* on a step whose persisted status is completed or skipped; resuming
\* [A: completed, B: failed, C: pending] runs B and then C only, also when
\* B or C fails.
Visited(id) == \E k \in 1..Len(trace) : trace[k][2] = id

InLedgerOrder ==
    \A k, l \in 1..Len(trace) :
        (k < l /\ ~IsRollback(trace[k]) /\ ~IsRollback(trace[l]))
            => trace[k][2] <= trace[l][2]

C3_ResumeCompleteness ==
    caller = "resume" =>
        /\ \A k \in 1..Len(trace) :
              trace[k][1] \in {"execute", "rollback"}
                  => startStatus[trace[k][2]] \notin {"completed", "skipped"}
        /\ startStatus = <<"completed", "failed", "pending">> =>
              /\ ~Visited(1)
              /\ InLedgerOrder
              /\ Visited(3) => Visited(2)
              /\ (Finished /\ result.success) => (Visited(2) /\ Visited(3))

C3_Witness ==
    /\ caller = "resume"
    /\ Finished
    /\ startStatus = <<"completed", "failed", "pending">>
    /\ IdsOf(SelectSeq(trace, LAMBDA e : e[1] = "execute")) = <<2, 3>>

\* C4 - Resume after interruption: when a step was left in flight
\* (in_progress), the next resume() re-enters execution at the first step of
\* the persisted ledger that is not completed or skipped.
Unfinished(statuses) ==
    {i \in 1..Len(statuses) : statuses[i] \notin {"completed", "skipped"}}

FirstUnfinished(statuses) ==
    CHOOSE i \in Unfinished(statuses) : \A j \in Unfinished(statuses) : i <= j

C4_ResumeAfterInterruption ==
    (/\ caller = "resume"
     /\ \E i \in 1..Len(startStatus) : startStatus[i] = "in_progress"
     /\ trace # <<>>)
        => trace[1][2] = FirstUnfinished(startStatus)

\* C5 - Full completion: success=true is returned only when every step is
\* completed or skipped, and the result carries canResume=false.
C5_FullCompletion ==
    (Finished /\ result.success) =>
        /\ \A i \in 1..Len(state.steps) :
              state.steps[i].status \in {"completed", "skipped"}
        /\ ~result.canResume

\* C6 - Idempotent skip: a step whose isAlreadyDone() returned true has
\* neither validate(), execute() nor rollback() invoked in that call, and
\* its ledger status is skipped.
C6_IdempotentSkip ==
    \A k \in 1..Len(trace) :
        trace[k] = Event("isAlreadyDone", trace[k][2], "true") =>
            /\ ~Invoked("validate", trace[k][2])
            /\ ~Invoked("execute", trace[k][2])
            /\ ~Invoked("rollback", trace[k][2])
            /\ state.steps[trace[k][2]].status = "skipped"
            /\ primary.steps[trace[k][2]].status = "skipped"

\* a step was skipped, a later step failed and the rollback ran
C6_Witness ==
    /\ FailedReturn
    /\ RolledBack # <<>>
    /\ \E k \in 1..Len(trace) : trace[k][1] = "isAlreadyDone" /\ trace[k][3] = "true"

\* C7 - Validation failure: when validate() does not pass, execute() of that
\* operation is not invoked, the step becomes failed, no later step is
\* started, and the operations executed earlier in the call are rolled back
\* in reverse order.
C7_ValidationFailure ==
    \A k \in 1..Len(trace) :
        (trace[k][1] = "validate" /\ trace[k][3] = "fail") =>
            /\ ~Invoked("execute", trace[k][2])
            /\ state.steps[trace[k][2]].status = "failed"
            /\ \A l \in (k + 1)..Len(trace) : IsRollback(trace[l])
            /\ \A j \in (trace[k][2] + 1)..Len(state.steps) :
                  state.steps[j].status = startStatus[j]
            /\ pc \in {"rollback", "idle"}
            /\ IsPrefix(RolledBack, Reverse(ExecutedOk))
            /\ Finished => (~result.success /\ RolledBack = Reverse(ExecutedOk))

C7_Witness ==
    /\ FailedReturn
    /\ \E k \in 1..Len(trace) : trace[k] = Event("validate", 3, "fail")
    /\ RolledBack = <<2, 1>>

\* C8 - Per-step state machine: within one transaction every change of a
\* step's status, in memory and in the persisted ledger, is one of
\* pending->in_progress, in_progress->completed, in_progress->failed,
\* in_progress->skipped, failed->in_progress.
StatusEdges ==
    { <<"pending", "in_progress">>, <<"in_progress", "completed">>,
      <<"in_progress", "failed">>, <<"in_progress", "skipped">>,
      <<"failed", "in_progress">> }

ValidChange(old, new) ==
    (old.present /\ new.present) =>
        /\ Len(old.steps) = Len(new.steps)
        /\ \A i \in 1..Len(old.steps) :
              \/ old.steps[i].status = new.steps[i].status
              \/ <<old.steps[i].status, new.steps[i].status>> \in StatusEdges

C10_TerminalClearing ==
    clearedAfterSuccess =>
        /\ ~primary.present
        /\ result.kind = "loaded" => ~result.success

C10_Witness == clearedAfterSuccess /\ result.kind = "loaded"

----------------------------------------------------------------------------
\* the ledger holds a failed step and no unfinished step before it
RetryTarget(statuses) ==
    /\ Unfinished(statuses) # {}
    /\ statuses[FirstUnfinished(statuses)] = "failed"

\* resume() is called on a persisted ledger with such a step, registered
ResumeOnRetryTarget ==
    /\ Resume
    /\ Complete(primary, "primary")
    /\ RetryTarget(StatusesOf(primary))
    /\ FirstUnfinished(StatusesOf(primary)) \in operations

\* resume() goes on to execute() with the failed step first
HeadsFor(id) == pc = "loop" /\ pendingSteps # <<>> /\ pendingSteps[1] = id

\* the first startStep of such a resume() puts the failed step in_progress
\* and the call goes on to the step's operation
RetryStarts ==
    (StartStep /\ caller = "resume" /\ cur = 1 /\ RetryTarget(startStatus)) =>
        /\ CurrentStep = FirstUnfinished(startStatus)
        /\ state'.steps[CurrentStep].status = "in_progress"
        /\ primary'.steps[CurrentStep].status = "in_progress"
        /\ pc' = "isAlreadyDone"

\* the first Operation method such a resume() invokes is of the failed step
RetryInvokes ==
    (caller = "resume" /\ RetryTarget(startStatus) /\ trace # <<>>) =>
        /\ trace[1][1] = "isAlreadyDone"
        /\ trace[1][2] = FirstUnfinished(startStatus)

\* C11 as stated - resume() retries a previously failed step: on a persisted
\* ledger with a failed step whose operation is registered and no earlier
\* unfinished step, resume() moves that step back to in_progress and invokes
\* its operation again, whatever the statuses of the other steps, also when
\* no step is completed yet.
C11_ResumeRetriesFailedStep ==
    [][ /\ ResumeOnRetryTarget =>
              HeadsFor(FirstUnfinished(StatusesOf(primary)))'
        /\ RetryStarts
        /\ RetryInvokes' ]_vars

\* C11 amended - the same, provided at least one step of the ledger is
\* completed; when none is, resume() raises and invokes no operation.
C11_ResumeRetriesFailedStepAfterProgress ==
    [][ /\ (ResumeOnRetryTarget /\ GetCompletedSteps(primary) # <<>>) =>
              HeadsFor(FirstUnfinished(StatusesOf(primary)))'
        /\ (ResumeOnRetryTarget /\ GetCompletedSteps(primary) = <<>>) =>
              (result'.kind = "raised" /\ pc' = "idle" /\ trace' = <<>>)
        /\ RetryStarts
        /\ RetryInvokes' ]_vars

\* resume() on [A: completed, B: failed, ...] has invoked B.execute() again
C11_Witness ==
    /\ caller = "resume"
    /\ Len(startStatus) >= 2
    /\ startStatus[1] = "completed"
    /\ startStatus[2] = "failed"
    /\ state.steps[2].status = "in_progress"
    /\ Invoked("execute", 2)

----------------------------------------------------------------------------
\* at least one step is completed and at least one is pending or failed
ResumableLedger(s) ==
    /\ s.present
    /\ \E i \in 1..Len(s.steps) : s.steps[i].status = "completed"
    /\ \E j \in 1..Len(s.steps) : s.steps[j].status \in {"pending", "failed"}

\* C12 - canResume() is true exactly when at least one step is completed and
\* at least one step is pending or failed; the failure result of execute()
\* carries canResume as the ledger gives it once the triggering step is
\* marked failed and the rollback phase is over.
C12_CanResume ==
    /\ CanResume(state) = ResumableLedger(state)
    /\ CanResume(primary) = ResumableLedger(primary)
    /\ FailedReturn => result.canResume = ResumableLedger(state)

\* a failure result with canResume = true that rests on the failed step alone
C12_Witness ==
    /\ FailedReturn
    /\ result.canResume
    /\ RolledBack # <<>>
    /\ \E i \in 1..Len(state.steps) : state.steps[i].status = "failed"
    /\ \A i \in 1..Len(state.steps) : state.steps[i].status # "pending"

----------------------------------------------------------------------------
\* the step whose validate() or execute() failed in this call
TriggeringStep == SelectSeq(trace, IsTrigger)[1][2]

\* C13 - Rollback does not rewrite the ledger: during the rollback phase of
\* a failed execute() no step status changes; afterwards the triggering step
\* is failed with its error recorded, every step executed and rolled back in
\* this call is still completed, every step after the triggering one is
\* still pending, and the result is success=false with an error naming the
\* triggering step.
C13_RollbackKeepsLedger ==
    [][ /\ ((\E o \in RollbackOutcomes : Rollback(o)) \/ ReturnFailure) =>
              UNCHANGED <<state, primary>>
        /\ (FailedReturn /\ FailedInOperation)' =>
              (/\ state.steps[TriggeringStep].status = "failed"
               /\ state.steps[TriggeringStep].error # NoError
               /\ \A k \in 1..Len(RolledBack) :
                     state.steps[RolledBack[k]].status = "completed"
               /\ \A i \in 1..Len(state.steps) :
                     i > TriggeringStep => state.steps[i].status = "pending"
               /\ ~result.success
               /\ result.error[1] = TriggeringStep)' ]_vars

\* what the code meets whatever way the step failed
LedgerUntouchedByRollback ==
    [][ /\ ((\E o \in RollbackOutcomes : Rollback(o)) \/ ReturnFailure) =>
              UNCHANGED <<state, primary>>
        /\ (FailedReturn /\ FailedInOperation)' =>
              (/\ \A k \in 1..Len(RolledBack) :
                     state.steps[RolledBack[k]].status = "completed"
               /\ \A i \in 1..Len(state.steps) :
                     i > TriggeringStep => state.steps[i].status = "pending"
               /\ ~result.success)' ]_vars

----------------------------------------------------------------------------
\* C14 - Missing ledger raises: resume() raises when no persisted ledger
\* exists and execute() raises when no state was initialized or loaded; in
\* both cases no Operation method is invoked, no ledger file is created or
\* modified and no fresh transaction is started.
C14_MissingLedgerRaises ==
    [][ ((Resume /\ ~primary.present) \/ (Execute /\ ~state.present)) =>
            /\ result'.kind = "raised"
            /\ pc' = "idle"
            /\ trace' = <<>>
            /\ UNCHANGED <<state, primary, backup, operations>> ]_vars

\* resume() has raised for want of a ledger file
C14_Witness ==
    /\ result = Raised("noExistingTransaction")
    /\ ~primary.present
    /\ ~state.present
    /\ pc = "idle"

----------------------------------------------------------------------------
\* no step of the ledger carries an error unless its status is failed
ErrorOnlyWhileFailed(s) ==
    \A i \in 1..Len(s.steps) :
        s.steps[i].error # NoError => s.steps[i].status = "failed"

\* C17 - Error only while failed: a step record carries an error exactly
\* while its status is failed; once a failed step is retried and becomes
\* in_progress, completed or skipped, the record no longer has an error.
C17_ErrorOnlyWhileFailed ==
    /\ ErrorOnlyWhileFailed(state)
    /\ ErrorOnlyWhileFailed(primary)
    /\ \A i \in 1..Len(state.steps) :
          state.steps[i].status = "failed" => state.steps[i].error # NoError

----------------------------------------------------------------------------
\* C15 as stated - Ledger read path: a missing primary file and a corrupt
\* one are treated identically as 'no transaction': loadState() returns null
\* and loadExisting() returns false in both cases, without raising and
\* without reading the backup copy.
C15_MissingAndCorruptAlike ==
    [][ (LoadExisting /\ ~Complete(primary, "primary")) =>
            /\ result' = LoadResult(FALSE)
            /\ UNCHANGED <<state, primary, backup, torn>> ]_vars

\* C15 amended - a missing primary file is 'no transaction': loadState()
\* returns null and loadExisting() returns false; a primary file that does
\* not parse makes loadState(), and with it loadExisting(), raise 'Failed to
\* load state'.  In neither case is the backup copy read or the state in
\* memory replaced.
C15_MissingIsNoTransactionCorruptRaises ==
    [][ LoadExisting =>
            /\ ~primary.present =>
                  (result' = LoadResult(FALSE) /\ state' = state)
            /\ (primary.present /\ "primary" \in torn) =>
                  (result' = Raised("Failed to load state") /\ state' = state)
            /\ Complete(primary, "primary") =>
                  (result' = LoadResult(TRUE) /\ state' = primary)
            /\ UNCHANGED <<primary, backup, torn>> ]_vars

\* loadExisting() has raised on a torn primary while the backup is intact
C15_Witness ==
    /\ result = Raised("Failed to load state")
    /\ primary.present
    /\ "primary" \in torn
    /\ Complete(backup, "backup")
    /\ ~state.present

----------------------------------------------------------------------------
\* C16 - clear() deletes the ledger, its backup and the map: after clear()
\* returns neither the primary ledger file nor the backup file exists,
\* whichever of the two existed before the call.
C16_ClearRemovesBothFiles ==
    result = ClearedResult => (~primary.present /\ ~backup.present)

----------------------------------------------------------------------------
\* the file records the ledger as of the last transition that returned,
\* but for the step of the transition begun since
RecordsReturned(file, name) ==
    /\ Complete(file, name)
    /\ Len(file.steps) = Len(durable.steps)
    /\ \A i \in 1..Len(durable.steps) :
          i = inFlight \/ file.steps[i].status = durable.steps[i].status

\* C19 - Write-through durability: every ledger transition is persisted
\* before the call returns, so at whatever point execute() is interrupted
\* the persisted primary ledger records every transition that had returned;
\* only the status of the single in-flight step can differ, and no earlier
\* step's completed, skipped or failed status is lost.
C19_WriteThroughDurability ==
    /\ durable.present => RecordsReturned(primary, "primary")
    /\ (result = SavedResult /\ state.present) => primary = state

\* C20 - Backup before overwrite: every save first copies the existing
\* primary file to the backup path and then overwrites the primary; after a
\* completed save the backup holds exactly the state the primary held
\* before that save, and once initialize() has returned, at every moment -
\* also when the process is killed in the middle of the copy or of the
\* write - at least one of the two files holds a complete TransactionState.
C20_BackupBeforeOverwrite ==
    /\ (result = SavedResult /\ priorPrimary.present) => backup = priorPrimary
    /\ initReturned =>
           (Complete(primary, "primary") \/ Complete(backup, "backup"))

\* a completed save leaves the previous primary in the backup
BackupHoldsPreviousPrimary ==
    (result = SavedResult /\ priorPrimary.present) => backup = priorPrimary

\* a transition whose write failed is followed by another save in the same
\* process: its copy has put the torn primary over the backup
TornPrimaryCopiedOverBackup ==
    /\ ledgerPc = "write"
    /\ state.present
    /\ inFlight # 0
    /\ initReturned
    /\ torn = {"primary", "backup"}

----------------------------------------------------------------------------
(* What the current (or last) CompositeOperation.execute() call did *)

IsProbe(e) == e[1] = "isAlreadyDone"

\* a child's validate() or execute() failed: by its result or by throwing
IsChildFailure(e) ==
    e[1] \in {"validate", "execute"} /\ e[3] \in {"fail", "throw"}

ChildrenExecuted == IdsOf(SelectSeq(cTrace, IsExecuteOk))

ChildrenRolledBack == IdsOf(SelectSeq(cTrace, IsRollback))

ChildFailures == SelectSeq(cTrace, IsChildFailure)

CompositeReturned ==
    cCaller = "execute" /\ cpc = "idle" /\ cResult.kind = "returned"

\* the children are probed in the order of the list, each probe opens the
\* visit of a child, and validate() and execute() follow on the same child
VisitsInListOrder ==
    /\ IsPrefix(IdsOf(SelectSeq(cTrace, IsProbe)), cOrder)
    /\ \A k \in 1..Len(cTrace) :
          cTrace[k][1] \in {"validate", "execute"} =>
              (k > 1 /\ cTrace[k - 1][2] = cTrace[k][2]
                     /\ cTrace[k - 1][3] \in {"false", "ok"})

SkippedNotRolledBack ==
    \A k, l \in 1..Len(cTrace) :
        (IsProbe(cTrace[k]) /\ cTrace[k][3] = "true" /\ IsRollback(cTrace[l]))
            => cTrace[k][2] # cTrace[l][2]

\* rollback() on exactly the children executed in this pass, in reverse
\* order, none left out after a rollback that raised
RollsBackExecuted ==
    /\ IsPrefix(ChildrenRolledBack, Reverse(ChildrenExecuted))
    /\ (CompositeReturned /\ ~cResult.success) =>
           ChildrenRolledBack = Reverse(ChildrenExecuted)

\* the text the composite builds around the error of a failure result
FailureText(e) == IF e[1] = "validate" THEN "Validation failed for" ELSE "failed"

SucceedsWithoutRollback ==
    (CompositeReturned /\ ChildFailures = <<>>
                       /\ \A k \in 1..Len(cTrace) : cTrace[k][3] # "throw") =>
        /\ cResult.success
        /\ ChildrenRolledBack = <<>>
        /\ IdsOf(SelectSeq(cTrace, IsProbe)) = cOrder

\* C18 - CompositeOperation.execute() visits its children in list order; a
\* child whose isAlreadyDone() is true is skipped and never rolled back; at
\* the first child whose validate() or execute() fails it calls rollback()
\* on exactly the children executed in this pass, in reverse order, going on
\* past a rollback that raises, never on the failing child, and returns a
\* failure result whose error names the failing child and its original
\* error; if no child fails it returns success and calls no rollback().
C18_CompositeExecute ==
    cCaller = "execute" =>
        /\ VisitsInListOrder
        /\ SkippedNotRolledBack
        /\ RollsBackExecuted
        /\ SucceedsWithoutRollback
        /\ (CompositeReturned /\ ChildFailures # <<>>) =>
              /\ ~cResult.success
              /\ ChildFailures[1][2] \notin
                     {ChildrenRolledBack[k] : k \in 1..Len(ChildrenRolledBack)}
              /\ cResult.error[1] = ChildFailures[1][2]

\* what execute() of a composite meets whatever way the child failed; the
\* error names the child when the child returned a failure result
CompositeExecuteRollsBack ==
    cCaller = "execute" =>
        /\ VisitsInListOrder
        /\ SkippedNotRolledBack
        /\ RollsBackExecuted
        /\ SucceedsWithoutRollback
        /\ (CompositeReturned /\ ChildFailures # <<>>) =>
              /\ ~cResult.success
              /\ ChildFailures[1][2] \notin
                     {ChildrenRolledBack[k] : k \in 1..Len(ChildrenRolledBack)}
              /\ cResult.error =
                     IF ChildFailures[1][3] = "fail"
                     THEN <<ChildFailures[1][2], FailureText(ChildFailures[1])>>
                     ELSE Thrown(IF ChildFailures[1][1] = "validate"
                                 THEN "validate threw" ELSE "execute threw")

----------------------------------------------------------------------------
----------------------------------------------------------------------------
\* completed or skipped steps, then at most one step that is in_progress or
\* failed, then pending steps only
OneAtATimeShape(s) ==
    \E k \in 0..Len(s.steps) :
        /\ \A i \in 1..Len(s.steps) :
              i <= k => s.steps[i].status \in {"completed", "skipped"}
        /\ \A i \in 1..Len(s.steps) :
              i > k + 1 => s.steps[i].status = "pending"

\* C22 - Steps execute one at a time in list order: in every reachable
\* ledger state at most one step is in_progress, and a step is never moved
\* to in_progress while a step before it has a status other than completed
\* or skipped, so the statuses are a prefix of completed or skipped steps,
\* then at most one in_progress or failed step, then pending steps only.
C22_OneStepAtATime ==
    /\ Cardinality({i \in 1..Len(state.steps) :
                       state.steps[i].status = "in_progress"}) <= 1
    /\ OneAtATimeShape(state)
    /\ OneAtATimeShape(primary)

----------------------------------------------------------------------------
\* n steps, the i-th with the id of the i-th operation, all pending
FreshLedger(s, n) ==
    /\ s.present
    /\ s.totalSteps = n
    /\ Len(s.steps) = n
    /\ \A i \in 1..n :
          /\ s.steps[i].id = i
          /\ s.steps[i].status = "pending"
          /\ s.steps[i].error = NoError

\* the same steps: their number, their ids and their order
SameSteps(old, new) ==
    (old.present /\ new.present) =>
        /\ new.totalSteps = old.totalSteps
        /\ Len(new.steps) = Len(old.steps)
        /\ \A i \in 1..Len(old.steps) : new.steps[i].id = old.steps[i].id

\* C23 - initialize(operations, options) creates a fresh ledger with exactly
\* one step per operation, in the operations' order, all pending, with
\* totalSteps the number of operations and each step id mapped to its
\* operation; afterwards no execute(), resume() or ledger transition
\* changes the number, the ids or the order of the steps.
C23_InitializeFixesSteps ==
    [][ LET n == Cardinality(operations')   \* initialize() registers n operations
        IN  IF /\ pc = "idle"
               /\ n \in 0..MaxSteps
               /\ \E c \in BOOLEAN : Initialize(n, c)
            THEN /\ FreshLedger(state', n)
                 /\ primary' = state'
                 /\ operations' = {state'.steps[i].id : i \in 1..n}
            ELSE /\ SameSteps(state, state')
                 /\ SameSteps(primary, primary')
                 /\ SameSteps(primary', state') ]_vars

\* a resumed transaction with a completed step and as many steps as at first
C23_Witness ==
    /\ caller = "resume"
    /\ pc = "completeStep"
    /\ Len(state.steps) >= 2
    /\ state.totalSteps = Len(state.steps)
    /\ \E i \in 1..Len(state.steps) : state.steps[i].status = "completed"

----------------------------------------------------------------------------
\* C24 - If execute() returns a failure result, every operation whose
\* execute() succeeded during this call has had rollback() invoked, also
\* when the failure is raised by the ledger itself (completeStep/saveState
\* failing to persist right after the operation's execute() succeeded).
C24_ExecutedAreRolledBack ==
    FailedReturn =>
        \A k \in 1..Len(ExecutedOk) :
            \E l \in 1..Len(RolledBack) : RolledBack[l] = ExecutedOk[k]

----------------------------------------------------------------------------
(* What the current (or last) CompositeOperation.rollback() call did *)

RollbackCallOver == cCaller = "rollback" /\ cpc = "idle"

\* C25 - CompositeOperation.rollback() is best-effort like the rollback
\* phase of execute(): when one child's rollback() raises, rollback() is
\* still attempted on every remaining child.
C25_CompositeRollbackBestEffort ==
    RollbackCallOver =>
        \A c \in 1..Len(cOrder) :
            \E k \in 1..Len(cTrace) : cTrace[k][2] = cOrder[c]

\* C26 - The order of a CompositeOperation's children is fixed at
\* construction: after any sequence of execute() and rollback() calls on
\* the same composite, execute() still visits the children in construction
\* order and rollback() still visits them in the exact reverse of it.
ConstructionOrder == [i \in 1..Len(children) |-> i]

C26_ChildOrderFixed ==
    /\ cCaller = "execute" =>
          IsPrefix(IdsOf(SelectSeq(cTrace, IsProbe)), ConstructionOrder)
    /\ cCaller = "rollback" =>
          IsPrefix(ChildrenRolledBack, Reverse(ConstructionOrder))

----------------------------------------------------------------------------
\* Step metadata: the transitions of InstallationStateManager on one step,
\* with the metadata argument of completeStep() and the reason of skipStep().

\* every object an operation can hand over as context: the keys it carries
\* and a value for each
MetadataObjects ==
    UNION {[keys -> MetaValues] : keys \in SUBSET (MetaKeys \ {"skipReason"})}

MergeReplaces(old, new) == new

\* { ...old, ...new }: the keys of both, the value of new where it has one
Merge(old, new) ==
    [k \in DOMAIN old \cup DOMAIN new |->
        IF k \in DOMAIN new THEN new[k] ELSE old[k]]

\* the history after writing the object new
Note(new) ==
    [k \in MetaKeys |-> IF k \in DOMAIN new THEN new[k] ELSE written[k]]

MetaFrame ==
    UNCHANGED <<state, primary, backup, result, txVars, ledgerVars,
                compositeVars, hostVars>>

\* startStep(): the status changes, the metadata is not touched
StepStart ==
    /\ metaStep' = [metaStep EXCEPT !.status = "in_progress"]
    /\ UNCHANGED written
    /\ MetaFrame

\* failStep(): the status changes, the metadata is not touched
StepFail ==
    /\ metaStep' = [metaStep EXCEPT !.status = "failed"]
    /\ UNCHANGED written
    /\ MetaFrame

\* completeStep(id, metadata): given is FALSE when metadata is undefined
StepComplete(given, metadata) ==
    /\ metaStep' = [status |-> "completed",
                    metadata |-> IF given
                                 THEN Merge(metaStep.metadata, metadata)
                                 ELSE metaStep.metadata]
    /\ written' = IF given THEN Note(metadata) ELSE written
    /\ MetaFrame

\* skipStep(id, reason): reason 0 is the undefined or empty reason
StepSkip(reason) ==
    /\ metaStep' = [status |-> "skipped",
                    metadata |-> IF reason # 0
                                 THEN Merge(metaStep.metadata,
                                            [k \in {"skipReason"} |-> reason])
                                 ELSE metaStep.metadata]
    /\ written' = IF reason # 0
                  THEN Note([k \in {"skipReason"} |-> reason])
                  ELSE written
    /\ MetaFrame

MetadataNext ==
    \/ StepStart
    \/ StepFail
    \/ \E given \in BOOLEAN, metadata \in MetadataObjects :
           StepComplete(given, metadata)
    \/ \E reason \in 0..MaxValue : StepSkip(reason)

MetadataSpec == Init /\ [][MetadataNext]_vars

MetadataTypeOK ==
    /\ metaStep.status \in Status
    /\ DOMAIN metaStep.metadata \subseteq MetaKeys
    /\ \A k \in DOMAIN metaStep.metadata : metaStep.metadata[k] \in MetaValues
    /\ written \in [MetaKeys -> 0..MaxValue]

\* C27: the metadata of a step is accumulated, not replaced: after any
\* sequence of transitions it holds every key an earlier completeStep() or
\* skipStep() wrote, with the value of the latest write under that key
C27_MetadataAccumulated ==
    \A k \in MetaKeys :
        written[k] # 0 =>
            /\ k \in DOMAIN metaStep.metadata
            /\ metaStep.metadata[k] = written[k]

\* C27, second half, as a companion: a transition that writes nothing (the
\* history is unchanged) leaves the metadata of the step as it was
TransitionWithoutMetadataKeepsIt ==
    [][written' = written => metaStep'.metadata = metaStep.metadata]_vars

\* a skipped step that still holds the two keys completeStep() wrote, next
\* to the reason skipStep() wrote
C27_Witness ==
    /\ metaStep.status = "skipped"
    /\ DOMAIN metaStep.metadata = MetaKeys
    /\ metaStep.metadata["path"] = 2
    /\ metaStep.metadata["port"] = 1
    /\ written["skipReason"] = 1
----------------------------------------------------------------------------
\* The host: the transaction manager of Spec, with the effect of every
\* operation on the host recorded across calls and across processes.

HostInit == Constructed /\ hostTracked = TRUE

HostSpec == HostInit /\ [][Next]_vars

HostTypeOK == hostTracked /\ inEffect \subseteq StepIds

\* C28: whenever execute() or resume() returns success = true, every
\* operation of the transaction is in effect on the host: it was found
\* already done, or it was executed and not rolled back afterwards
C28_SuccessMeansAllInEffect ==
    (Finished /\ result.success) => inEffect = 1..result.totalSteps

\* a successful return over a ledger in which every step is completed while
\* the operation of one of them was rolled back and never run again
RolledBackStepReportedDone ==
    /\ Finished /\ result.success
    /\ state # NoState
    /\ \A i \in 1..Len(state.steps) : state.steps[i].status = "completed"
    /\ \E i \in 1..Len(state.steps) : i \notin inEffect

----------------------------------------------------------------------------
\* C29: in every TransactionResult, on the success path and on the failure
\* path, completedSteps is the number of ledger steps whose status is
\* completed when the result is returned, and totalSteps is the number of
\* steps of the ledger
C29_ResultCountsMatchLedger ==
    Finished =>
        /\ result.completedSteps = Len(GetCompletedSteps(state))
        /\ result.totalSteps = Len(state.steps)

\* the failure path alone: there the counts are those of the ledger
FailureResultCountsMatchLedger ==
    FailedReturn =>
        /\ result.completedSteps = Len(GetCompletedSteps(state))
        /\ result.totalSteps = Len(state.steps)

\* the total alone, on both paths
ResultTotalMatchesLedger ==
    Finished => result.totalSteps = Len(state.steps)

----------------------------------------------------------------------------
NotFoundText == "Operation not found for step"

\* the error of the current call names a step without a registered operation
NotFoundError(e) == Len(e) = 2 /\ e[2] = NotFoundText

\* the step the current call found no operation for, 0 when there is none
MissingStep ==
    IF pc = "rollback" /\ NotFoundError(errorMessage) THEN errorMessage[1]
    ELSE IF Finished /\ NotFoundError(result.error) THEN result.error[1]
    ELSE 0

\* C30: when execute() reaches a pending or failed step that has no
\* registered operation it does not raise: the status of that step and of
\* every later step stays what it was when the call began, no method of their
\* operations is invoked, the operations executed earlier in the call are
\* rolled back, and the call returns success = false
C30_MissingOperationFailsCleanly ==
    /\ result.kind = "raised" => result.error # <<NotFoundText>>
    /\ MissingStep # 0 =>
          /\ startStatus[MissingStep] \in {"pending", "failed"}
          /\ \A i \in MissingStep..Len(state.steps) :
                /\ state.steps[i].status = startStatus[i]
                /\ \A k \in 1..Len(trace) : trace[k][2] # i
          /\ IsPrefix(RolledBack, Reverse(ExecutedOk))
          /\ Finished =>
                /\ ~result.success
                /\ RolledBack = Reverse(ExecutedOk)

\* a call in a new process that registered only the first operation: it
\* executed step 1, found no operation for step 2, rolled step 1 back and
\* returned a failure, steps 2 and 3 still pending
C30_Witness ==
    /\ Finished
    /\ ~result.success
    /\ result.error = <<2, NotFoundText>>
    /\ ExecutedOk = <<1>>
    /\ RolledBack = <<1>>
    /\ Len(state.steps) = 3
    /\ state.steps[2].status = "pending"
    /\ state.steps[3].status = "pending"

====
